---- MODULE Spec2Model ----
(***************************************************************************)
(* A model of the mark-and-sweep collector of src/lib.rs: the Vm (root     *)
(* stack, heap registry, counters), the boxed Objects it allocates, and    *)
(* the operations push_int, push_pair, pop, mark_all, sweep, gc and drop.  *)
(*                                                                         *)
(* A GcPtr is modelled by the allocation number of its Box (1, 2, ...), a  *)
(* None option by 0.  `mem` is the sequence of all boxes ever allocated,   *)
(* `freed` the set of those that GcPtr::free has released.  A box number   *)
(* is never given out twice, so a reference to a freed box stays apart     *)
(* from every later allocation.                                            *)
(***************************************************************************)
EXTENDS Integers, Sequences, FiniteSets, TLC

\* ------------------------------------------------------------------------
\* Program constants
\* ------------------------------------------------------------------------
STACK_MAX == 256
INITIAL_GC_THRESHOLD == 8

\* Option::None for an Option<GcPtr<Object>>
None == 0

\* ------------------------------------------------------------------------
\* Bounds of the model
\* ------------------------------------------------------------------------
\* allocations (push_int / push_pair calls that reach Vm::push) per run
MaxAlloc == 5
\* direct pop() calls per run
MaxPops == 2
\* unsafe link rewrites (as in test4) per run
MaxLinks == 1
\* allocations and direct pop() calls per run that rewrites links
MutAlloc == 5
MutPops == 1
\* allocations and direct pop() calls per run that calls mark_all and sweep
RawAlloc == 3
RawPops == 2
\* allocations per run that starts from a filled stack
FullAlloc == 3
\* rounds of the outer loop of perf_test (1000 in the source)
PerfRounds == 2
\* pushes, and pops, of one round of perf_test
PerfBatch == 20

\* the i64 arguments push_int is called with
IntValues == {1, 2}
\* the same in the runs that rewrite links
MutValues == {1}

VARIABLES
    stack,        \* Vm.stack: the Some slots of the array, slot -> GcPtr
    stack_size,   \* Vm.stack_size
    heap,         \* Vm.heap: sequence of GcPtr
    num_objs,     \* Vm.num_objs
    max_objs,     \* Vm.max_objs
    mem,          \* the boxes: mem[p] is the Object behind GcPtr p
    freed,        \* boxes released by GcPtr::free
    status,       \* "ok", "panicked" (an operation panicked), "dropped",
                  \* "crashed" (killed at an access to freed memory),
                  \* "diverged" (a mark that does not return)
    last_op,      \* the operation called last
    ret,          \* what the last call returned (pop: the GcPtr), else None
    out,          \* what the last call printed (gc: <<collected, remaining>>)
    marks,        \* the boxes whose mark bit the last collection set, in order
    explicit_gc,  \* has gc() been called by the user of the Vm
    direct_pop,   \* has pop() been called by the user of the Vm
    pops,         \* direct pop() calls left
    budget,       \* allocations left
    links,        \* unsafe link rewrites left
    inputs,       \* the i64 values the run calls push_int with
    test,         \* the test function being run, "none" outside the tests
    pc,           \* the statement of the test to run next
    lifo          \* the references pushed and not yet popped, oldest first

vars == <<stack, stack_size, heap, num_objs, max_objs, mem, freed, status,
          last_op, ret, out, marks, explicit_gc, direct_pop, pops, budget,
          links, inputs, test, pc, lifo>>

\* ------------------------------------------------------------------------
\* Objects
\* ------------------------------------------------------------------------
\* Object { marked: false, value: ObjType::Int(v) }
IntObject(v) ==
    [marked |-> FALSE, tag |-> "Int", int |-> v, head |-> None, tail |-> None]

\* the Pair push_pair builds from its two pops: first popped, second popped
MutPairFields(first, second) == [head |-> second, tail |-> first]
PairFields(first, second) == [head |-> first, tail |-> second]

\* Object { marked: false, value: ObjType::Pair(Pair { head, tail }) }
MutPairObject(first, second) ==
    [marked |-> FALSE, tag |-> "Pair", int |-> 0,
     head |-> first, tail |-> first]

PairObject(first, second) ==
    [marked |-> FALSE, tag |-> "Pair", int |-> 0,
     head |-> PairFields(first, second).head,
     tail |-> PairFields(first, second).tail]

\* ------------------------------------------------------------------------
\* The machine as a value: the fields of the Vm, the boxes, and the results
\* of the call in progress.
\* ------------------------------------------------------------------------
\* The array [Option<GcPtr<Object>>; STACK_MAX] is kept as the map of its
\* Some slots: slot i holds stk[i] when i is in the domain and None otherwise.
EmptyStack == [i \in {} |-> None]

\* self.stack[i]
Slot(stk, i) == IF i \in DOMAIN stk THEN stk[i] ELSE None

\* self.stack[i] = Some(p)
SetSlot(stk, i, p) == (i :> p) @@ stk

\* self.stack[i].take()
MutTakeSlot(stk, i) == stk
TakeSlot(stk, i) == [j \in DOMAIN stk \ {i} |-> stk[j]]

\* Vm::new
New ==
    [stack |-> EmptyStack, stack_size |-> 0, heap |-> <<>>, num_objs |-> 0,
     max_objs |-> INITIAL_GC_THRESHOLD, mem |-> <<>>, freed |-> {},
     status |-> "ok", ret |-> None, out |-> <<>>, marks |-> <<>>,
     live |-> <<>>, ub |-> "stale"]

Cur ==
    [stack |-> stack, stack_size |-> stack_size, heap |-> heap,
     num_objs |-> num_objs, max_objs |-> max_objs, mem |-> mem,
     freed |-> freed, status |-> status, ret |-> None, out |-> <<>>,
     marks |-> <<>>, live |-> <<>>, ub |-> "stale"]

\* GcPtr::mark on a box that GcPtr::free has released reads and writes freed
\* memory, which is undefined behaviour.  The outcomes kept apart here:
\*   "stale"  the memory still holds the object as it was when freed, and
\*            mark goes on as if it were alive;
\*   "set"    the byte read for `marked` is nonzero, and mark returns;
\*   "crash"  the access faults and the process is killed.
\* s.ub is the outcome the call in progress meets; there is a choice only
\* when a stack slot or a box that is alive refers to a released box.
UbOutcomes(s) ==
    IF /\ \A i \in DOMAIN s.stack : s.stack[i] \notin s.freed
       /\ \A p \in (1..Len(s.mem)) \ s.freed :
             s.mem[p].head \notin s.freed /\ s.mem[p].tail \notin s.freed
    THEN {"stale"}
    ELSE {"stale", "set", "crash"}

Panic(s) == [s EXCEPT !.status = "panicked"]

\* assert!(self.stack_size < STACK_MAX, "Stack overflow!") on a usize
MutStackHasRoom(sz) == sz >= 0 /\ sz <= STACK_MAX
StackHasRoom(sz) == sz >= 0 /\ sz < STACK_MAX

\* Vm::push
MutPush(s, obj) ==
    IF ~StackHasRoom(s.stack_size) THEN Panic([s EXCEPT !.num_objs = @ + 1])
    ELSE LET p == Len(s.mem) + 1 IN
         [s EXCEPT !.mem = Append(@, obj),
                   !.stack = SetSlot(@, s.stack_size, p),
                   !.heap = Append(@, p),
                   !.stack_size = @ + 1,
                   !.num_objs = @ + 1]

Push(s, obj) ==
    IF ~StackHasRoom(s.stack_size) THEN Panic(s)
    ELSE LET p == Len(s.mem) + 1 IN
         [s EXCEPT !.mem = Append(@, obj),
                   !.stack = SetSlot(@, s.stack_size, p),
                   !.heap = Append(@, p),
                   !.stack_size = @ + 1,
                   !.num_objs = @ + 1]

\* usize `x -= 1`: with overflow checks (debug build) it panics at 0, without
\* them (release build) it wraps to usize::MAX, written here as -1, the same
\* residue modulo 2^64.
Decrement(x, checks) ==
    IF x # 0 THEN [ok |-> TRUE, v |-> x - 1]
    ELSE IF checks THEN [ok |-> FALSE, v |-> x]
    ELSE [ok |-> TRUE, v |-> -1]

\* Vm::pop
MutPop(s, checks) ==
    LET d == Decrement(s.stack_size, checks) IN
    IF ~d.ok THEN Panic(s)
    ELSE LET s1 == [s EXCEPT !.stack_size = d.v] IN
         IF ~(d.v >= 0 /\ d.v < STACK_MAX) THEN Panic(s1)
         ELSE IF Slot(s1.stack, d.v) = None THEN Panic(s1)
         ELSE [s1 EXCEPT !.stack = TakeSlot(@, d.v),
                         !.ret = Slot(s1.stack, d.v),
                         !.num_objs = @ - 1]

Pop(s, checks) ==
    LET d == Decrement(s.stack_size, checks) IN
    IF ~d.ok THEN Panic(s)
    ELSE LET s1 == [s EXCEPT !.stack_size = d.v] IN
         IF ~(d.v >= 0 /\ d.v < STACK_MAX) THEN Panic(s1)   \* index out of bounds
         ELSE IF Slot(s1.stack, d.v) = None THEN Panic(s1)  \* unwrap of None
         ELSE [s1 EXCEPT !.stack = TakeSlot(@, d.v),
                         !.ret = Slot(s1.stack, d.v)]

\* Vm::push_int
PushInt(s, v) == Push(s, IntObject(v))

\* Vm::push_pair
PushPair(s, checks) ==
    LET s1 == Pop(s, checks) IN
    IF s1.status = "panicked" THEN s1
    ELSE LET s2 == Pop(s1, checks) IN
         IF s2.status = "panicked" THEN s2
         ELSE Push([s2 EXCEPT !.ret = None], PairObject(s1.ret, s2.ret))

\* ------------------------------------------------------------------------
\* Mark
\* ------------------------------------------------------------------------
\* No terminating trace of mark_all makes more calls of GcPtr::mark than
\* this: one per stack slot and two per box.
MarkFuel(s) == STACK_MAX + 2 * Len(s.mem) + 1

\* the test at the head of GcPtr::mark
MutIsMarked(m, p) == FALSE
IsMarked(m, p) == m[p].marked

\* the links GcPtr::mark follows: Some(head) and Some(tail) of a Pair
MutHeadOf(o) == None
HeadOf(o) == IF o.tag = "Pair" THEN o.head ELSE None

MutTailOf(o) == None
TailOf(o) == IF o.tag = "Pair" THEN o.tail ELSE None

\* GcPtr::mark.  ms = [mem, marks, fuel, diverged, freed, ub]: the boxes,
\* the boxes whose mark bit has been set (in order), the calls left, out of
\* calls or killed, the released boxes, the outcome of an access to one
RECURSIVE Mark(_, _)
Mark(ms, p) ==
    IF ms.fuel = 0 THEN [ms EXCEPT !.diverged = TRUE]
    ELSE LET ms0 == [ms EXCEPT !.fuel = @ - 1] IN
         IF p \in ms.freed /\ ms.ub = "crash"
         THEN [ms0 EXCEPT !.diverged = TRUE, !.crashed = TRUE]
         ELSE IF p \in ms.freed /\ ms.ub = "set" THEN ms0
         ELSE IF IsMarked(ms0.mem, p) THEN ms0
         ELSE LET ms1 == [ms0 EXCEPT !.mem[p].marked = TRUE,
                                     !.marks = Append(@, p)]
                  o == ms1.mem[p]
                  ms2 == IF HeadOf(o) # None THEN Mark(ms1, HeadOf(o)) ELSE ms1
              IN IF ms2.diverged THEN ms2
                 ELSE IF TailOf(o) # None THEN Mark(ms2, TailOf(o)) ELSE ms2

\* the loop of Vm::mark_all over the slots lo .. hi-1, in slot order: a None
\* slot is passed over, a Some slot is marked.  (The range is halved rather
\* than walked, and a range of None slots passed over at once, so that the
\* evaluation stays shallow.)
RECURSIVE MarkSlots(_, _, _, _)
MarkSlots(stk, ms, lo, hi) ==
    IF ms.diverged \/ (\A i \in lo..(hi - 1) : Slot(stk, i) = None) THEN ms
    ELSE IF hi = lo + 1 THEN Mark(ms, Slot(stk, lo))
         ELSE LET mid == (lo + hi) \div 2 IN
              MarkSlots(stk, MarkSlots(stk, ms, lo, mid), mid, hi)

\* Vm::mark_all
MutMarkAll(s) ==
    LET ms == MarkSlots(s.stack,
                        [mem |-> s.mem, marks |-> <<>>, fuel |-> MarkFuel(s),
                         diverged |-> FALSE, crashed |-> FALSE,
                         freed |-> s.freed, ub |-> s.ub], 0, STACK_MAX)
    IN [s EXCEPT !.mem = ms.mem, !.marks = ms.marks, !.stack = EmptyStack,
                 !.status = IF ms.crashed THEN "crashed"
                            ELSE IF ms.diverged THEN "diverged" ELSE @]

MarkAll(s) ==
    LET ms == MarkSlots(s.stack,
                        [mem |-> s.mem, marks |-> <<>>, fuel |-> MarkFuel(s),
                         diverged |-> FALSE, crashed |-> FALSE,
                         freed |-> s.freed, ub |-> s.ub], 0, STACK_MAX)
    IN [s EXCEPT !.mem = ms.mem, !.marks = ms.marks,
                 !.status = IF ms.crashed THEN "crashed"
                            ELSE IF ms.diverged THEN "diverged" ELSE @]

\* ------------------------------------------------------------------------
\* Sweep
\* ------------------------------------------------------------------------
\* the test of the loop of Vm::sweep: is the object kept
MutSweepKeeps(o) == TRUE
SweepKeeps(o) == o.marked

\* GcPtr::unmark
MutUnmark(m, p) == m
Unmark(m, p) == [m EXCEPT ![p].marked = FALSE]

\* one round of the loop of Vm::sweep, on heap[i]; s.live is live_objects.
\* num_objs is decremented as an integer: a value below 0 stands for the
\* underflow of the usize.
MutSweepOne(s, i) ==
    LET p == s.heap[i] IN
    IF ~SweepKeeps(s.mem[p])
    THEN [s EXCEPT !.freed = @ \cup {p}, !.num_objs = @ - 1]
    ELSE [s EXCEPT !.mem = Unmark(@, p), !.live = Append(@, p),
                   !.num_objs = @ - 1]

SweepOne(s, i) ==
    LET p == s.heap[i] IN
    IF ~SweepKeeps(s.mem[p])
    THEN [s EXCEPT !.freed = @ \cup {p}, !.num_objs = @ - 1]
    ELSE [s EXCEPT !.mem = Unmark(@, p), !.live = Append(@, p)]

\* the loop of Vm::sweep over heap[lo] .. heap[hi-1], in heap order (halved
\* like MarkSlots)
RECURSIVE SweepRange(_, _, _)
SweepRange(s, lo, hi) ==
    IF s.status # "ok" \/ lo >= hi THEN s
    ELSE IF hi = lo + 1 THEN SweepOne(s, lo)
         ELSE LET mid == (lo + hi) \div 2 IN
              SweepRange(SweepRange(s, lo, mid), mid, hi)

\* Vm::sweep
Sweep(s) ==
    LET s1 == SweepRange([s EXCEPT !.live = <<>>], 1, Len(s.heap) + 1)
    IN [s1 EXCEPT !.heap = s1.live, !.live = <<>>]

\* ------------------------------------------------------------------------
\* Collection
\* ------------------------------------------------------------------------
\* the new max_objs of Vm::gc
MutThreshold(n) == IF n = 0 THEN INITIAL_GC_THRESHOLD ELSE n + 2
Threshold(n) == IF n = 0 THEN INITIAL_GC_THRESHOLD ELSE n * 2

\* Vm::gc
Gc(s) ==
    LET before == s.num_objs
        s1 == MarkAll(s)
        s2 == IF s1.status = "ok" THEN Sweep(s1) ELSE s1
    IN IF s2.status # "ok" THEN s2
       ELSE [s2 EXCEPT !.max_objs = Threshold(s2.num_objs),
                       !.out = <<before - s2.num_objs, s2.num_objs>>]

\* the fields Drop::drop resets before it collects
MutDropReset(s) == [s EXCEPT !.stack_size = 0]
DropReset(s) == [s EXCEPT !.stack_size = 0, !.stack = EmptyStack]

\* Drop::drop for Vm
Drop(s) ==
    LET s1 == Gc([DropReset(s) EXCEPT !.status = "ok"]) IN
    [s1 EXCEPT !.status = IF @ = "ok" THEN "dropped" ELSE @]

\* ------------------------------------------------------------------------
\* Rewriting a link through the raw pointer, as test4 does
\* ------------------------------------------------------------------------
\* let b = vm.heap[j].clone(); if let Pair(p) = heap[i] { p.<f> = Some(b) }
\* (i and j count from 0, as the indices of the Vec do)
SetLink(s, i, f, j) ==
    LET b == s.heap[j + 1]
        a == s.heap[i + 1]
    IN IF s.mem[a].tag # "Pair" THEN s
       ELSE IF f = "head" THEN [s EXCEPT !.mem[a].head = b]
       ELSE [s EXCEPT !.mem[a].tail = b]

\* n calls of push_int(1) (halved so that the evaluation stays shallow)
RECURSIVE PushInts(_, _)
PushInts(s, n) ==
    IF s.status # "ok" \/ n = 0 THEN s
    ELSE IF n = 1 THEN PushInt(s, 1)
    ELSE PushInts(PushInts(s, n \div 2), n - (n \div 2))

\* ------------------------------------------------------------------------
\* The test functions, as the sequences of their statements
\* ------------------------------------------------------------------------
Ins(op, a, b) == [op |-> op, a |-> a, b |-> b]

Test1Script ==
    << Ins("push_int", 1, 0), Ins("push_int", 2, 0), Ins("gc", 0, 0),
       Ins("assert_num_objs", 2, 0), Ins("drop", 0, 0) >>

Test2Script ==
    << Ins("push_int", 1, 0), Ins("push_int", 2, 0), Ins("pop", 0, 0),
       Ins("pop", 0, 0), Ins("gc", 0, 0), Ins("assert_num_objs", 0, 0),
       Ins("drop", 0, 0) >>

Test3Script ==
    << Ins("push_int", 1, 0), Ins("push_int", 2, 0), Ins("push_pair", 0, 0),
       Ins("push_int", 3, 0), Ins("push_int", 4, 0), Ins("push_pair", 0, 0),
       Ins("push_pair", 0, 0), Ins("gc", 0, 0), Ins("assert_num_objs", 7, 0),
       Ins("drop", 0, 0) >>

Test4Script ==
    << Ins("push_int", 1, 0), Ins("push_int", 2, 0), Ins("push_pair", 0, 0),
       Ins("push_int", 3, 0), Ins("push_int", 4, 0), Ins("push_pair", 0, 0),
       Ins("set_tail", 0, 1), Ins("set_tail", 1, 0), Ins("gc", 0, 0),
       Ins("assert_num_objs", 4, 0), Ins("drop", 0, 0) >>

\* for i in 0..PerfRounds { PerfBatch times push_int(i); PerfBatch times pop() }
PerfScript ==
    [k \in 1..(PerfRounds * 2 * PerfBatch + 1) |->
        IF k = PerfRounds * 2 * PerfBatch + 1 THEN Ins("drop", 0, 0)
        ELSE IF ((k - 1) % (2 * PerfBatch)) < PerfBatch
             THEN Ins("push_int", (k - 1) \div (2 * PerfBatch), 0)
             ELSE Ins("pop", 0, 0)]

Tests == {"test1", "test2", "test3", "test4", "perf_test"}

Script(t) ==
    CASE t = "test1" -> Test1Script
      [] t = "test2" -> Test2Script
      [] t = "test3" -> Test3Script
      [] t = "test4" -> Test4Script
      [] t = "perf_test" -> PerfScript

\* one statement of a test
Exec(s, ins, checks) ==
    CASE ins.op = "push_int" -> PushInt(s, ins.a)
      [] ins.op = "push_pair" -> PushPair(s, checks)
      [] ins.op = "pop" -> Pop(s, checks)
      [] ins.op = "gc" -> Gc(s)
      [] ins.op = "set_tail" -> SetLink(s, ins.a, "tail", ins.b)
      [] ins.op = "assert_num_objs" ->
            IF s.num_objs = ins.a THEN s ELSE Panic(s)
      [] ins.op = "drop" -> Drop(s)

\* ------------------------------------------------------------------------
\* The actions: one call of a public operation
\* ------------------------------------------------------------------------
\* the references pushed and not yet popped after the call of op that
\* ended in s: a push adds the new box, a pop takes the newest away (the
\* first pop of a push_pair that panics at its second one included), drop
\* discards all
LifoAfter(l, op, s) ==
    LET front(q) == SubSeq(q, 1, Len(q) - 1) IN
    CASE op = "push_int" ->
            IF s.status = "ok" THEN Append(l, Len(s.mem)) ELSE l
      [] op = "pop" -> IF s.status = "ok" THEN front(l) ELSE l
      [] op = "push_pair" ->
            IF s.status = "ok" THEN Append(front(front(l)), Len(s.mem))
            ELSE IF l = <<>> THEN l ELSE front(l)
      [] op = "drop" -> <<>>
      [] OTHER -> l

Apply(s, op) ==
    /\ lifo' = LifoAfter(lifo, op, s)
    /\ stack' = s.stack
    /\ stack_size' = s.stack_size
    /\ heap' = s.heap
    /\ num_objs' = s.num_objs
    /\ max_objs' = s.max_objs
    /\ mem' = s.mem
    /\ freed' = s.freed
    /\ status' = s.status
    /\ ret' = s.ret
    /\ out' = s.out
    /\ marks' = s.marks
    /\ last_op' = op

DoPushInt ==
    /\ status = "ok"
    /\ budget > 0
    /\ \E v \in inputs : Apply(PushInt(Cur, v), "push_int")
    /\ budget' = budget - 1
    /\ UNCHANGED <<explicit_gc, direct_pop, pops, links, inputs, test, pc>>

DoPushPair ==
    /\ status = "ok"
    /\ budget > 0
    /\ \E checks \in BOOLEAN : Apply(PushPair(Cur, checks), "push_pair")
    /\ budget' = budget - 1
    /\ UNCHANGED <<explicit_gc, direct_pop, pops, links, inputs, test, pc>>

DoPop ==
    /\ status = "ok"
    /\ pops > 0
    /\ \E checks \in BOOLEAN : Apply(Pop(Cur, checks), "pop")
    /\ pops' = pops - 1
    /\ direct_pop' = TRUE
    /\ UNCHANGED <<explicit_gc, budget, links, inputs, test, pc>>

DoGc ==
    /\ status = "ok"
    /\ \E u \in UbOutcomes(Cur) : Apply(Gc([Cur EXCEPT !.ub = u]), "gc")
    /\ explicit_gc' = TRUE
    /\ UNCHANGED <<direct_pop, pops, budget, links, inputs, test, pc>>

\* Vm::mark_all called on its own
DoMarkAll ==
    /\ status = "ok"
    /\ \E u \in UbOutcomes(Cur) :
          Apply(MarkAll([Cur EXCEPT !.ub = u]), "mark_all")
    /\ UNCHANGED <<explicit_gc, direct_pop, pops, budget, links, inputs, test, pc>>

\* Vm::sweep called on its own
DoSweep ==
    /\ status = "ok"
    /\ Apply(Sweep(Cur), "sweep")
    /\ UNCHANGED <<explicit_gc, direct_pop, pops, budget, links, inputs, test, pc>>

\* the Vm goes out of scope, or the panic of a failed call unwinds
DoDrop ==
    /\ status \in {"ok", "panicked"}
    /\ Apply(Drop(Cur), "drop")
    /\ UNCHANGED <<explicit_gc, direct_pop, pops, budget, links, inputs, test, pc>>

\* a link of a pair in the heap is rewritten through its raw pointer
DoSetLink ==
    /\ status = "ok"
    /\ links > 0
    /\ \E i \in 0..(Len(heap) - 1), j \in 0..(Len(heap) - 1),
          f \in {"head", "tail"} :
            /\ mem[heap[i + 1]].tag = "Pair"
            /\ Apply(SetLink(Cur, i, f, j), "set_link")
    /\ links' = links - 1
    /\ UNCHANGED <<explicit_gc, direct_pop, pops, budget, inputs, test, pc>>

\* the next statement of the running test; a panic unwinds and drops the Vm
DoTestStep ==
    /\ test # "none"
    /\ \/ /\ status = "ok"
          /\ pc <= Len(Script(test))
          /\ LET ins == Script(test)[pc] IN
             /\ \E checks \in BOOLEAN : Apply(Exec(Cur, ins, checks), ins.op)
             /\ explicit_gc' = (explicit_gc \/ ins.op = "gc")
             /\ direct_pop' = (direct_pop \/ ins.op = "pop")
          /\ pc' = pc + 1
       \/ /\ status = "panicked"
          /\ Apply(Drop(Cur), "drop")
          /\ UNCHANGED <<explicit_gc, direct_pop, pc>>
    /\ UNCHANGED <<pops, budget, links, inputs, test>>

InitFrom(s, allocs, npops, rewrites, vals, t) ==
    /\ stack = s.stack
    /\ stack_size = s.stack_size
    /\ heap = s.heap
    /\ num_objs = s.num_objs
    /\ max_objs = s.max_objs
    /\ mem = s.mem
    /\ freed = s.freed
    /\ status = s.status
    /\ ret = None
    /\ out = <<>>
    /\ marks = <<>>
    /\ last_op = "new"
    /\ explicit_gc = FALSE
    /\ direct_pop = FALSE
    /\ pops = npops
    /\ budget = allocs
    /\ links = rewrites
    /\ inputs = vals
    /\ test = t
    /\ pc = 1
    /\ lifo = [i \in 1..Len(s.mem) |-> i]

\* ------------------------------------------------------------------------
\* Specifications
\* ------------------------------------------------------------------------
\* the public operations on a new Vm
Init == InitFrom(New, MaxAlloc, MaxPops, 0, IntValues, "none")

Next == DoPushInt \/ DoPushPair \/ DoPop \/ DoGc \/ DoDrop

Spec == Init /\ [][Next]_vars

\* the public operations and the rewriting of links on a new Vm
InitMut == InitFrom(New, MutAlloc, MutPops, MaxLinks, MutValues, "none")

NextMut == DoPushInt \/ DoPushPair \/ DoPop \/ DoGc \/ DoSetLink

SpecMut == InitMut /\ [][NextMut]_vars

\* the public operations, mark_all and sweep included, on a new Vm
InitRaw == InitFrom(New, RawAlloc, RawPops, 0, MutValues, "none")

NextRaw == DoPushInt \/ DoPushPair \/ DoPop \/ DoGc \/ DoMarkAll \/ DoSweep

SpecRaw == InitRaw /\ [][NextRaw]_vars

\* the public operations on a new Vm and on one whose stack has been filled
\* up to its last slot by push_int
Prefills == {0, STACK_MAX - 1}

InitFull == \E n \in Prefills : InitFrom(PushInts(New, n), FullAlloc, MaxPops, 0, IntValues, "none")

SpecFull == InitFull /\ [][Next]_vars

\* the test functions of the crate
InitTests == \E t \in Tests : InitFrom(New, 0, 0, 0, {}, t)

NextTests == DoTestStep

SpecTests == InitTests /\ [][NextTests]_vars

\* ------------------------------------------------------------------------
\* Reachability, defined on the object graph and not by the collector
\* ------------------------------------------------------------------------
HeapSet == {heap[i] : i \in 1..Len(heap)}

Roots == {stack[i] : i \in DOMAIN stack}

Links(p) == {mem[p].head, mem[p].tail} \ {None}

RECURSIVE Closure(_)
Closure(S) ==
    LET T == S \cup UNION {Links(p) : p \in S}
    IN IF T = S THEN S ELSE Closure(T)

\* the objects an occupied stack slot leads to through head/tail links
Reachable == Closure(Roots)

AfterGc == last_op = "gc" /\ status = "ok"

\* ------------------------------------------------------------------------
\* C1: a call of gc() never removes from the heap an object that an
\* occupied stack slot reaches, directly or through head/tail links; and as
\* long as pop has not been called directly, gc() collects 0 objects and
\* num_objs is the number of objects ever allocated.
\* ------------------------------------------------------------------------
C1_ReachableSurvive ==
    /\ [][last_op' = "gc" =>
            \A p \in Reachable \cap HeapSet : p \in HeapSet' /\ p \notin freed']_vars
    /\ []((AfterGc /\ ~direct_pop) =>
            (out = <<0, Len(mem)>> /\ num_objs = Len(mem) /\ freed = {}))

\* a collection has freed garbage and kept a pair together with its children
C1_Witness ==
    /\ AfterGc
    /\ out[1] > 0
    /\ \E p \in HeapSet :
          /\ mem[p].tag = "Pair"
          /\ Links(p) \subseteq HeapSet
          /\ Links(p) \cap Roots = {}

\* ------------------------------------------------------------------------
\* C2: right after gc() the heap is exactly the set of objects reachable
\* from the occupied stack slots, and num_objs is the size of that set.
\* ------------------------------------------------------------------------
C2_UnreachableReclaimed ==
    AfterGc =>
        /\ HeapSet = Reachable
        /\ num_objs = Cardinality(Reachable)
        /\ Len(heap) = num_objs
        /\ freed = (1..Len(mem)) \ Reachable

\* everything pushed was popped, and the collection emptied the heap
C2_Witness ==
    /\ AfterGc
    /\ direct_pop
    /\ stack_size = 0
    /\ Len(mem) >= 2
    /\ out = <<Len(mem), 0>>
    /\ num_objs = 0

\* ------------------------------------------------------------------------
\* C3: once the Vm has been dropped the stack is empty, every object ever
\* allocated has been freed, the heap is empty and num_objs is 0.
\* ------------------------------------------------------------------------
C3_TeardownReclaimsAll ==
    status = "dropped" =>
        /\ stack_size = 0
        /\ Roots = {}
        /\ heap = <<>>
        /\ num_objs = 0
        /\ freed = 1..Len(mem)

\* a Vm dropped with all its objects still reachable from the stack
C3_Witness ==
    /\ status = "dropped"
    /\ ~direct_pop
    /\ ~explicit_gc
    /\ Len(mem) >= 3
    /\ out = <<Len(mem), 0>>

\* ------------------------------------------------------------------------
\* C4: as long as gc() has not been called explicitly, num_objs never
\* exceeds max_objs (a collection runs by itself before it would).
\* ------------------------------------------------------------------------
C4_AutomaticCollection ==
    (status = "ok" /\ ~explicit_gc) => num_objs <= max_objs

\* ------------------------------------------------------------------------
\* C5: right after gc() max_objs is 8 when num_objs is 0 and 2 * num_objs
\* otherwise, so that with K > 0 survivors max_objs - num_objs = K; the
\* allocating calls leave max_objs alone and add one object each, so exactly
\* K of them bring num_objs up to max_objs.
\* ------------------------------------------------------------------------
C5_ThresholdPolicy ==
    /\ [](AfterGc =>
            /\ max_objs = IF num_objs = 0 THEN 8 ELSE 2 * num_objs
            /\ (num_objs > 0 => max_objs - num_objs = num_objs))
    /\ [][(last_op' \in {"push_int", "push_pair"} /\ status' = "ok") =>
            (max_objs' = max_objs /\ num_objs' = num_objs + 1)]_vars

\* a collection that left two objects alive and set the threshold to four
C5_Witness ==
    /\ AfterGc
    /\ num_objs = 2
    /\ max_objs = 4
    /\ out[1] > 0

\* ------------------------------------------------------------------------
\* C6: right after gc(), a second gc() changes neither the stack, the heap,
\* the objects, num_objs nor max_objs, and collects 0 objects.
\* ------------------------------------------------------------------------
C6_GcIdempotent ==
    AfterGc =>
        LET again == Gc(Cur) IN
        /\ again.status = "ok"
        /\ again.stack = stack
        /\ again.stack_size = stack_size
        /\ again.heap = heap
        /\ again.mem = mem
        /\ again.freed = freed
        /\ again.num_objs = num_objs
        /\ again.max_objs = max_objs
        /\ again.out = <<0, num_objs>>

\* the first collection freed some objects and kept others
C6_Witness ==
    /\ AfterGc
    /\ out[1] > 0
    /\ out[2] > 0
    /\ Gc(Cur).out = <<0, out[2]>>

\* ------------------------------------------------------------------------
\* C7: with the head/tail links of pairs rewritten to arbitrary heap objects
\* (cycles included) gc() terminates, its mark phase sets the mark bit of
\* each reachable object exactly once, and it leaves exactly the reachable
\* objects in the heap: an unreachable cycle is freed in full, a reachable
\* one kept in full.
\* ------------------------------------------------------------------------
NoDuplicates(seq) ==
    \A i \in 1..Len(seq), j \in 1..Len(seq) : seq[i] = seq[j] => i = j

\* a and b are distinct pairs that link to each other
MutualCycle(a, b) ==
    /\ a # b
    /\ mem[a].tag = "Pair"
    /\ mem[b].tag = "Pair"
    /\ b \in Links(a)
    /\ a \in Links(b)

C7_CycleSafety ==
    /\ status # "diverged"
    /\ AfterGc =>
          /\ NoDuplicates(marks)
          /\ {marks[i] : i \in 1..Len(marks)} = Reachable
          /\ HeapSet = Reachable
          /\ freed = (1..Len(mem)) \ Reachable

\* a collection has freed two pairs that referenced each other
C7_Witness ==
    /\ AfterGc
    /\ \E a \in freed, b \in freed : MutualCycle(a, b)

\* a collection has kept two pairs that reference each other
C7_WitnessKept ==
    /\ AfterGc
    /\ \E a \in HeapSet, b \in HeapSet : MutualCycle(a, b)

\* ------------------------------------------------------------------------
\* C8: in test4, after push_int(1), push_int(2), push_pair(), push_int(3),
\* push_int(4), push_pair(), the two tail rewrites on heap[0] and heap[1]
\* and gc(), the collection has terminated and num_objs is 4.
\* ------------------------------------------------------------------------
C8_Test4LeavesFour ==
    (test = "test4" /\ pc = 10) => (status = "ok" /\ num_objs = 4)

\* ------------------------------------------------------------------------
\* C9: push_int panics exactly when stack_size is 256, pop exactly when
\* stack_size is 0, push_pair exactly when stack_size is below 2; a call
\* that does not panic has taken effect.
\* ------------------------------------------------------------------------
C9_StackBoundFailures ==
    [][/\ last_op' = "push_int" =>
            /\ (status' = "panicked") <=> (stack_size = 256)
            /\ (status' = "ok") <=> (stack_size < 256)
            /\ status' = "ok" => stack_size' = stack_size + 1
       /\ last_op' = "pop" =>
            /\ (status' = "panicked") <=> (stack_size = 0)
            /\ (status' = "ok") <=> (stack_size > 0)
            /\ status' = "ok" => stack_size' = stack_size - 1
       /\ last_op' = "push_pair" =>
            /\ (status' = "panicked") <=> (stack_size < 2)
            /\ (status' = "ok") <=> (stack_size >= 2)
            /\ status' = "ok" => stack_size' = stack_size - 1]_vars

\* push_int has panicked on a full stack
C9_Witness ==
    /\ last_op = "push_int"
    /\ status = "panicked"
    /\ stack_size = STACK_MAX
    /\ DOMAIN stack = 0..(STACK_MAX - 1)

\* push_pair has panicked with a single root
C9_WitnessPair ==
    /\ last_op = "push_pair"
    /\ status = "panicked"
    /\ Len(mem) = 1

\* ------------------------------------------------------------------------
\* C10: push_pair with stack_size >= 2 takes the two top roots off the
\* stack, allocates one pair whose head is the former top and whose tail is
\* the former second from top, and pushes it: stack_size decreases by 1,
\* num_objs increases by 1, and both children stay in the heap, referenced
\* by the new pair only and by no stack slot.
\* ------------------------------------------------------------------------
C10_PushPair ==
    [][(last_op' = "push_pair" /\ stack_size >= 2) =>
         LET top == Slot(stack, stack_size - 1)
             second == Slot(stack, stack_size - 2)
             pair == Len(mem) + 1
         IN /\ status' = "ok"
            /\ stack_size' = stack_size - 1
            /\ num_objs' = num_objs + 1
            /\ Len(mem') = Len(mem) + 1
            /\ heap' = Append(heap, pair)
            /\ mem'[pair] = [marked |-> FALSE, tag |-> "Pair", int |-> 0,
                             head |-> top, tail |-> second]
            /\ \A p \in 1..Len(mem) : mem'[p] = mem[p]
            /\ Slot(stack', stack_size' - 1) = pair
            /\ \A i \in 0..(stack_size' - 2) : Slot(stack', i) = Slot(stack, i)
            /\ DOMAIN stack' = 0..(stack_size' - 1)
            /\ {top, second} \subseteq HeapSet'
            /\ {top, second} \cap Roots' = {}
            /\ \A q \in HeapSet' \ {pair} : Links(q)' \cap {top, second} = {}
            /\ top # second]_vars

\* a pair has been built from a pair (the former top) and an int
C10_Witness ==
    /\ last_op = "push_pair"
    /\ status = "ok"
    /\ stack_size >= 1
    /\ LET pair == Slot(stack, stack_size - 1)
       IN /\ mem[pair].tag = "Pair"
          /\ mem[mem[pair].head].tag = "Pair"
          /\ mem[mem[pair].tail].tag = "Int"

\* ------------------------------------------------------------------------
\* C11: a pop() that succeeds returns the reference pushed last among those
\* not yet popped, takes 1 off stack_size, and leaves the heap, num_objs,
\* max_objs and every object (mark bit and links) as they were; push_int,
\* push_pair and pop never take an object out of the heap or free one: an
\* object leaves the heap only in gc or drop, which sweep.
\* ------------------------------------------------------------------------
C11_DeferredDeletion ==
    /\ [][(last_op' = "pop" /\ status' = "ok") =>
            /\ lifo # <<>>
            /\ ret' = lifo[Len(lifo)]
            /\ ret' \notin Roots'
            /\ stack_size' = stack_size - 1
            /\ heap' = heap
            /\ num_objs' = num_objs
            /\ max_objs' = max_objs
            /\ mem' = mem
            /\ freed' = freed]_vars
    /\ [][last_op' \in {"push_int", "push_pair", "pop"} =>
            (HeapSet \subseteq HeapSet' /\ freed' = freed)]_vars
    /\ [][(HeapSet \ HeapSet' # {} \/ freed' # freed) =>
            last_op' \in {"gc", "drop"}]_vars

\* a pair has been popped and is still in the heap with both its children
C11_Witness ==
    /\ last_op = "pop"
    /\ status = "ok"
    /\ ret \in HeapSet \ freed
    /\ mem[ret].tag = "Pair"
    /\ Links(ret) \subseteq HeapSet
    /\ num_objs = Len(mem)

\* ------------------------------------------------------------------------
\* C12: in every state reached by push_int, push_pair, pop, mark_all, sweep
\* and gc, num_objs is the length of the heap registry, which lists no
\* object twice, and num_objs has never gone below 0.
\* ------------------------------------------------------------------------
C12_CountMatchesHeap ==
    /\ num_objs = Len(heap)
    /\ num_objs >= 0
    /\ NoDuplicates(heap)

\* a sweep called on its own has freed one object and kept a marked one
C12_Witness ==
    /\ last_op = "sweep"
    /\ status = "ok"
    /\ freed # {}
    /\ num_objs > 0
    /\ num_objs < Len(mem)

\* ------------------------------------------------------------------------
\* C13: in every state reached by push_int, push_pair, pop and gc, every
\* object an occupied stack slot refers to and every head or tail of an
\* object in the heap is itself in the heap and has not been freed; a freed
\* object stays freed, is referenced by no slot and no heap object, and is
\* never in the heap again.
\* ------------------------------------------------------------------------
C13_NoDangling ==
    /\ [](/\ Roots \subseteq HeapSet
          /\ \A p \in HeapSet : Links(p) \subseteq HeapSet
          /\ HeapSet \cap freed = {}
          /\ HeapSet \cup freed = 1..Len(mem))
    /\ [][freed \subseteq freed']_vars

\* after a collection that freed garbage, a pair is on the stack and its
\* children are alive in the heap, and a further object has been pushed
C13_Witness ==
    /\ last_op = "push_int"
    /\ status = "ok"
    /\ freed # {}
    /\ \E p \in Roots : mem[p].tag = "Pair" /\ Links(p) \cap freed = {}

\* ------------------------------------------------------------------------
\* C14: with mark_all() and sweep() also called on their own, in any order
\* among push_int, push_pair, pop and gc, no occupied stack slot refers to
\* a freed object, and right after every gc() the heap is exactly the set
\* of objects reachable from the stack.
\* ------------------------------------------------------------------------
C14_RawCallsKeepRegistry ==
    /\ Roots \cap freed = {}
    /\ AfterGc => HeapSet = Reachable

\* ------------------------------------------------------------------------
\* C15: in every state reached by push_int, push_pair, pop and gc, every
\* object in the heap has its mark bit clear: an object is allocated
\* unmarked and a sweep unmarks what it keeps.  So every gc() frees each
\* heap object that no stack slot reaches at the time of the call, whatever
\* was reachable at an earlier collection.
\* ------------------------------------------------------------------------
C15_MarksClearBetweenCollections ==
    /\ [](\A p \in HeapSet : ~mem[p].marked)
    /\ [][(last_op' \in {"push_int", "push_pair"} /\ status' = "ok") =>
            ~mem'[Len(mem')].marked]_vars
    /\ [][(last_op' = "gc" /\ status' = "ok") =>
            \A p \in HeapSet \ Reachable : p \in freed' /\ p \notin HeapSet']_vars

\* a collection has set the mark bits of its survivors, freed the rest, and
\* left the survivors unmarked
C15_Witness ==
    /\ AfterGc
    /\ Len(marks) >= 2
    /\ out[1] > 0
    /\ {marks[i] : i \in 1..Len(marks)} = HeapSet
    /\ \A p \in HeapSet : ~mem[p].marked

\* ------------------------------------------------------------------------
\* C16: a call of push_int, pop or push_pair that panics leaves the stack
\* slots, stack_size, the heap, num_objs and max_objs as they were before
\* the call.
\* ------------------------------------------------------------------------
FailedCall == status' = "panicked" /\ last_op' \in {"push_int", "pop", "push_pair"}

C16_FailureLeavesUnchanged ==
    [][FailedCall =>
         /\ stack' = stack
         /\ stack_size' = stack_size
         /\ heap' = heap
         /\ num_objs' = num_objs
         /\ max_objs' = max_objs]_vars

\* C16, amended: a call that panics leaves the heap, num_objs, max_objs and
\* every object as they were.  A push_int that panics (full stack) leaves
\* the stack as it was too.  A pop that panics (empty stack) leaves the
\* slots as they were, and stack_size at 0 in a build with overflow checks
\* and wrapped to usize::MAX in one without.  A push_pair that panics has
\* popped the single root if there was one: the stack is then empty, and
\* stack_size is 0 or wrapped in the same way.
C16_FailureEffects ==
    [][FailedCall =>
         /\ heap' = heap
         /\ num_objs' = num_objs
         /\ max_objs' = max_objs
         /\ mem' = mem
         /\ freed' = freed
         /\ last_op' = "push_int" =>
               (stack_size = STACK_MAX /\ stack' = stack /\ stack_size' = stack_size)
         /\ last_op' = "pop" =>
               (stack_size = 0 /\ stack' = stack /\ stack_size' \in {0, -1})
         /\ last_op' = "push_pair" =>
               /\ stack_size \in {0, 1}
               /\ stack' = EmptyStack
               /\ stack_size' \in {0, -1}
               /\ ret' = IF stack_size = 1 THEN stack[0] ELSE None]_vars

\* push_pair has panicked after it popped the only root, which stays in the
\* heap
C16_Witness ==
    /\ last_op = "push_pair"
    /\ status = "panicked"
    /\ lifo = <<>>
    /\ Roots = {}
    /\ ret # None
    /\ ret \in HeapSet

\* ------------------------------------------------------------------------
\* C17: in every reachable state stack_size is between 0 and 256, slot i is
\* occupied exactly when i < stack_size, and the occupied slots hold, from
\* slot 0 up, the references pushed and not yet popped, oldest first: these
\* stack_size references are the roots mark_all traces.
\* ------------------------------------------------------------------------
StackShape ==
    /\ stack_size \in 0..STACK_MAX
    /\ DOMAIN stack = 0..(stack_size - 1)
    /\ stack_size = Len(lifo)
    /\ \A i \in DOMAIN stack : stack[i] = lifo[i + 1] /\ stack[i] # None

C17_StackShape == StackShape

\* C17, amended: the same in every reachable state in which no call has
\* panicked, and after a panic in a build with overflow checks.  In a build
\* without them a pop or push_pair that panics on an empty stack leaves
\* stack_size wrapped to usize::MAX, with every slot empty, until drop sets
\* it to 0.
C17_StackShapeUnlessWrapped ==
    /\ status # "panicked" => StackShape
    /\ stack_size # -1 => StackShape
    /\ stack_size = -1 => (status = "panicked" /\ Roots = {} /\ lifo = <<>>)

\* all 256 slots are occupied, the pair built from the two topmost of
\* them below the top
C17_Witness ==
    /\ status = "ok"
    /\ stack_size = STACK_MAX
    /\ mem[stack[STACK_MAX - 2]].tag = "Pair"
    /\ lifo[STACK_MAX] = stack[STACK_MAX - 1]

\* ------------------------------------------------------------------------
\* C18: gc() leaves stack_size and every stack slot as they were, and the
\* payload of every object it keeps (int value, head and tail) as it was;
\* it keeps the survivors in their heap order and adds nothing to the heap.
\* ------------------------------------------------------------------------
Payload(o) == [tag |-> o.tag, int |-> o.int, head |-> o.head, tail |-> o.tail]

C18_GcFrame ==
    [][(last_op' = "gc" /\ status' = "ok") =>
         /\ stack_size' = stack_size
         /\ stack' = stack
         /\ Len(mem') = Len(mem)
         /\ HeapSet' \subseteq HeapSet
         /\ \A p \in HeapSet' : Payload(mem'[p]) = Payload(mem[p])
         /\ heap' = SelectSeq(heap, LAMBDA p : p \in HeapSet')]_vars

\* a collection has freed garbage with an int and a pair on the stack
C18_Witness ==
    /\ AfterGc
    /\ out[1] > 0
    /\ stack_size = 2
    /\ {mem[p].tag : p \in Roots} = {"Int", "Pair"}
    /\ \E p \in Roots : mem[p].tag = "Int" /\ mem[p].int = 2

\* ------------------------------------------------------------------------
\* C19: in every state reached by push_int, push_pair, pop and gc the
\* object graph is a forest: every heap object has at most one holder,
\* counting the occupied stack slots and the head and tail fields of the
\* heap objects; the head and the tail of a pair are two different objects,
\* both allocated before the pair; so no cycle and no shared object is
\* reachable.
\* ------------------------------------------------------------------------
\* the stack slots and the (object, field) places that refer to p
Holders(p) ==
    {<<"slot", i>> : i \in {j \in DOMAIN stack : stack[j] = p}}
    \cup {<<q, "head">> : q \in {r \in HeapSet : mem[r].head = p}}
    \cup {<<q, "tail">> : q \in {r \in HeapSet : mem[r].tail = p}}

C19_Forest ==
    /\ \A p \in HeapSet : Cardinality(Holders(p)) <= 1
    /\ \A q \in HeapSet :
          mem[q].tag = "Pair" =>
             /\ mem[q].head # None
             /\ mem[q].tail # None
             /\ mem[q].head # mem[q].tail
             /\ mem[q].head < q
             /\ mem[q].tail < q
    /\ \A q \in HeapSet : mem[q].tag = "Int" => Links(q) = {}

\* a pair of a pair and an int has been popped: it has no holder, each of
\* the objects below it exactly one
C19_Witness ==
    /\ status = "ok"
    /\ \E q \in HeapSet :
          /\ mem[q].tag = "Pair"
          /\ Holders(q) = {}
          /\ mem[mem[q].head].tag = "Pair"
          /\ \A p \in Closure({q}) \ {q} :
                p \in HeapSet /\ Cardinality(Holders(p)) = 1

====
